---- MODULE Spec2Model ----
(***************************************************************************)
(* Reachability and path-finding core of the project_info backend:         *)
(*   dependents.py  map_addresses_to_dependents, find_dependents           *)
(*   paths.py       find_paths_breadth_first                               *)
(***************************************************************************)
EXTENDS Integers, Sequences, FiniteSets, TLC

VARIABLES
    \* ---- dependents.py ----
    dependencies_per_target, \* resolved dependencies, one set per entry of all_targets
    address_to_dependents,   \* AddressToDependents.mapping (keys: addresses with dependents)
    rule_pc,                 \* position of map_addresses_to_dependents: "start" | "mapped" | "off"
    addresses,               \* DependentsRequest.addresses, shared by the requests
    fd,                      \* per request: locals of the find_dependents invocation, and
                             \* iterations, the number of times its loop body has run
    \* ---- paths.py ----
    adjacency_lists,         \* dict: address -> list of the addresses of its dependencies
    from_target,             \* root of the enumeration
    to_target,               \* destination of the enumeration
    paths_pc,                \* position in find_paths_breadth_first: "start" | "loop" | "done" | "off"
    visited_edges,           \* set of (prev_target or None, target)
    to_walk_paths,           \* deque of partial paths, left end first
    yielded,                 \* the paths yielded so far, in yield order
    enqueued,                \* history: every path placed in to_walk_paths so far, in order
    \* ---- paths.py: the paths goal ----
    path_from,               \* paths_subsystem.from_: None or a spec, held as the targets it resolves to
    path_to,                 \* paths_subsystem.to: likewise
    goal_graph,              \* the build graph: address -> sorted list of its dependencies
    goal_pc,                 \* position in paths(): "start" | "raised" | "resolved" | "written" | "off"
    goal_error,              \* message of the ValueError raised, or None
    from_tgts,               \* resolved roots, NoList before the resolution
    to_tgts,                 \* resolved destinations, NoList before the resolution
    pair_paths,              \* <<i, j>> -> SpecsPaths.paths of root i and destination j, NoList while pending
    pair_order,              \* per root i: the destinations j in the order their rules completed
    root_collections,        \* i -> SpecsPathsCollection.spec_paths of root i, NoList while pending
    root_order,              \* the roots i in the order their rules completed
    console,                 \* what was written to the console, in order
    \* ---- dependents.py: the dependents goal ----
    specified_addresses,     \* the Addresses of the goal, in order
    dependents_subsystem,    \* the options transitive, closed and format
    dgoal_pc,                \* position in dependents_goal: "start" | "awaiting" | "written" | "off"
    dependents_group,        \* per call of find_dependents awaited by the goal: its locals
    group_order,             \* the calls in the order in which they returned
    \* ---- concurrent enumerations over one snapshot ----
    walks,                   \* per enumeration: the arguments and locals of its generator
    \* ---- core/goals/deploy.py: run_deploy ----
    publish_processes,       \* the PublishPackages found: kind of process and the exit code it gives
    deploy_processes,        \* the DeployProcess of each field set, likewise
    deploy_pc,               \* position in run_deploy
    background_results,      \* per background publish: its exit code, NoList while it runs
    exit_code,               \* the local exit_code
    results,                 \* the local results: the status lines so far
    next_index,              \* position of the for loop that is running
    running,                 \* the processes that were invoked and have not exited
    log,                     \* history: the invocations, exits and skips so far, in order
    stderr                   \* the lines printed with console.print_stderr

dep_vars == <<dependencies_per_target, address_to_dependents, rule_pc, addresses, fd>>
path_vars == <<adjacency_lists, from_target, to_target, paths_pc, visited_edges,
               to_walk_paths, yielded, enqueued>>
goal_vars == <<path_from, path_to, goal_graph, goal_pc, goal_error, from_tgts, to_tgts,
               pair_paths, pair_order, root_collections, root_order, console>>
dgoal_vars == <<specified_addresses, dependents_subsystem, dgoal_pc, dependents_group,
                group_order>>
deploy_vars == <<publish_processes, deploy_processes, deploy_pc, background_results,
                 exit_code, results, next_index, running, log, stderr>>
vars == <<dep_vars, path_vars, goal_vars, dgoal_vars, walks, deploy_vars>>
\* What the rules of dependents.py leave alone, what find_paths_breadth_first
\* does, and what the paths goal does.
not_dep_vars == <<path_vars, goal_vars, dgoal_vars, walks, deploy_vars>>
not_path_vars == <<dep_vars, goal_vars, dgoal_vars, walks, deploy_vars>>
not_goal_vars == <<dep_vars, path_vars, dgoal_vars, walks, deploy_vars>>

---------------------------------------------------------------------------
\* Bounds of the dependents model.

\* At most this many forward dependency edges in the snapshot.
MaxDepEdges == 4

\* AllUnexpandedTargets, in iteration order.
all_targets == <<"X", "Y", "Z">>

Address == {all_targets[i] : i \in 1..Len(all_targets)}

\* FrozenDict() / defaultdict(set) with no key.
EmptyMapping == [a \in {} |-> {}]

\* mapping.get(target, FrozenOrderedSet())
Get(mapping, target) == IF target \in DOMAIN mapping THEN mapping[target] ELSE {}

\* Faulty variant of AddDependencies: the edge recorded in the wrong direction.
AddDependenciesSwapped(a2d, tgt, dependencies) ==
    IF dependencies = {} THEN a2d
    ELSE [d \in DOMAIN a2d \cup {tgt} |->
            Get(a2d, d) \cup (IF d = tgt THEN dependencies ELSE {})]

\* for dependency in dependencies: address_to_dependents[dependency].add(tgt.address)
AddDependencies(a2d, tgt, dependencies) ==
    [d \in DOMAIN a2d \cup dependencies |->
        Get(a2d, d) \cup (IF d \in dependencies THEN {tgt} ELSE {})]

RECURSIVE BuildMapping(_, _, _)
\* for tgt, dependencies in zip(all_targets, dependencies_per_target): ...
\* i is the position of the zip iterator, a2d the defaultdict so far.
BuildMapping(a2d, deps, i) ==
    IF i > Len(all_targets) \/ i > Len(deps) THEN a2d
    ELSE BuildMapping(AddDependencies(a2d, all_targets[i], deps[i]), deps, i + 1)

\* The requests the engine evaluates over one snapshot and one address set.
Requests == [transitive : BOOLEAN, include_roots : BOOLEAN]

\* Faulty variant of Expand: the round starts from an empty set instead of a copy of
\* known_dependents.
ExpandForgetsKnown(check, known_dependents, mapping) ==
    UNION {Get(mapping, target) : target \in check}

\* dependents = set(known_dependents); for target in check: dependents.update(...)
Expand(check, known_dependents, mapping) ==
    known_dependents \cup UNION {Get(mapping, target) : target \in check}

\* Faulty variant of ShouldReturn: the loop is left after the first round whatever
\* the flag says.
ShouldReturnAfterFirstRound(check, transitive) == TRUE

\* Faulty variant of ShouldReturn: the transitive flag is ignored.
ShouldReturnIgnoresTransitive(check, transitive) == check = {}

\* if not check or not request.transitive
ShouldReturn(check, transitive) == check = {} \/ ~transitive

\* Faulty variant of Result: the roots are not subtracted in open mode.
ResultKeepsRoots(dependents, request_addresses, include_roots) ==
    IF include_roots THEN dependents \cup request_addresses ELSE dependents

\* dependents | set(request.addresses) if request.include_roots
\*     else dependents - set(request.addresses)
Result(dependents, request_addresses, include_roots) ==
    IF include_roots
    THEN dependents \cup request_addresses
    ELSE dependents \ request_addresses

---------------------------------------------------------------------------
\* Inputs of the dependents model.

EdgeCount(deps) ==
    Cardinality({<<i, d>> \in (1..Len(deps)) \X Address : d \in deps[i]})

DependencyInputs ==
    {deps \in [1..Len(all_targets) -> SUBSET Address] : EdgeCount(deps) <= MaxDepEdges}

\* Python's None, where the other values are strings.
None == "None"

\* A value that is None or a list: None is held as <<>>, the list x as <<x>>.
NoList == <<>>

Some(x) == <<x>>

\* The goal rule paths() is not running.
PathsGoalOff ==
    /\ path_from = NoList
    /\ path_to = NoList
    /\ goal_graph = EmptyMapping
    /\ goal_pc = "off"
    /\ goal_error = None
    /\ from_tgts = NoList
    /\ to_tgts = NoList
    /\ pair_paths = EmptyMapping
    /\ pair_order = <<>>
    /\ root_collections = <<>>
    /\ root_order = <<>>
    /\ console = <<>>

\* The goal rule dependents_goal is not running.
DependentsGoalOff ==
    /\ specified_addresses = <<>>
    /\ dependents_subsystem = [transitive |-> FALSE, closed |-> FALSE, format |-> "text"]
    /\ dgoal_pc = "off"
    /\ dependents_group = <<>>
    /\ group_order = <<>>

\* No enumerations run side by side.
WalksOff == walks = <<>>

\* The goal rule run_deploy is not running.
DeployOff ==
    /\ publish_processes = <<>>
    /\ deploy_processes = <<>>
    /\ deploy_pc = "off"
    /\ background_results = <<>>
    /\ exit_code = 0
    /\ results = <<>>
    /\ next_index = 0
    /\ running = {}
    /\ log = <<>>
    /\ stderr = <<>>

\* No find_paths_breadth_first generator is running.
PathsOff ==
    /\ adjacency_lists = EmptyMapping
    /\ from_target = "None"
    /\ to_target = "None"
    /\ paths_pc = "off"
    /\ visited_edges = {}
    /\ to_walk_paths = <<>>
    /\ enqueued = <<>>
    /\ yielded = <<>>

\* Faulty variant of FdStart: the first round checks every target instead of
\* the addresses of the request.
FdStartFromAllTargets(request_addresses) ==
    [pc |-> "loop", check |-> Address, known_dependents |-> {}, result |-> {},
     iterations |-> 0]

\* check = set(request.addresses); known_dependents = set()
FdStart(request_addresses) ==
    [pc |-> "loop", check |-> request_addresses, known_dependents |-> {}, result |-> {},
     iterations |-> 0]

InitDependents ==
    /\ dependencies_per_target \in DependencyInputs
    /\ address_to_dependents = EmptyMapping
    /\ rule_pc = "start"
    /\ addresses \in SUBSET Address
    /\ fd = [q \in Requests |-> FdStart(addresses)]
    /\ PathsOff
    /\ PathsGoalOff
    /\ DependentsGoalOff
    /\ WalksOff
    /\ DeployOff

\* The rule map_addresses_to_dependents, after its dependencies are resolved.
MapAddressesToDependents ==
    /\ rule_pc = "start"
    /\ address_to_dependents' = BuildMapping(EmptyMapping, dependencies_per_target, 1)
    /\ rule_pc' = "mapped"
    /\ UNCHANGED <<dependencies_per_target, addresses, fd>>
    /\ UNCHANGED not_dep_vars

\* One round of the while loop of find_dependents that ends in the return.
FindDependentsReturn(q) ==
    /\ rule_pc = "mapped"
    /\ fd[q].pc = "loop"
    /\ LET dependents == Expand(fd[q].check, fd[q].known_dependents, address_to_dependents)
           check == dependents \ fd[q].known_dependents
       IN  /\ ShouldReturn(check, q.transitive)
           /\ fd' = [fd EXCEPT ![q] =
                        [pc |-> "returned", check |-> check,
                         known_dependents |-> fd[q].known_dependents,
                         result |-> Result(dependents, addresses, q.include_roots),
                         iterations |-> fd[q].iterations + 1]]
    /\ UNCHANGED <<dependencies_per_target, address_to_dependents, rule_pc, addresses>>
    /\ UNCHANGED not_dep_vars

\* One round of the while loop of find_dependents that goes round again.
FindDependentsContinue(q) ==
    /\ rule_pc = "mapped"
    /\ fd[q].pc = "loop"
    /\ LET dependents == Expand(fd[q].check, fd[q].known_dependents, address_to_dependents)
           check == dependents \ fd[q].known_dependents
       IN  /\ ~ShouldReturn(check, q.transitive)
           /\ fd' = [fd EXCEPT ![q] =
                        [pc |-> "loop", check |-> check,
                         known_dependents |-> dependents, result |-> {},
                         iterations |-> fd[q].iterations + 1]]
    /\ UNCHANGED <<dependencies_per_target, address_to_dependents, rule_pc, addresses>>
    /\ UNCHANGED not_dep_vars

NextDependents ==
    \/ MapAddressesToDependents
    \/ \E q \in Requests : FindDependentsReturn(q)
    \/ \E q \in Requests : FindDependentsContinue(q)

SpecDependents == InitDependents /\ [][NextDependents]_vars

\* The engine runs a rule that can run: a round of a request that has not
\* returned is taken.
FairSpecDependents == SpecDependents /\ WF_vars(NextDependents)

---------------------------------------------------------------------------
\* paths.py: find_paths_breadth_first

\* At most this many edges in an adjacency map over SmallAddress.
MaxEdges == 4

\* At most this many edges in an adjacency map over PathAddress.
MaxWideEdges == 5

\* The addresses of the paths model, in their sort order.
path_universe == <<"a", "b", "c", "d", "e">>

PathAddress == {path_universe[i] : i \in 1..Len(path_universe)}

SmallAddress == {"a", "b", "c", "d"}

\* The dependencies of one target as the engine lists them: sorted, no duplicate.
SortedList(S) == SelectSeq(path_universe, LAMBDA x : x \in S)

\* The adjacency dict of an edge set; a target without dependency has no key
\* (adjacency_lists.get(target, []) reads it as the empty list).
AdjacencyOf(E) ==
    [n \in {e[1] : e \in E} |-> SortedList({e[2] : e \in {x \in E : x[1] = n}})]

\* adjacency_lists.get(target, [])
GetList(adjacency, target) ==
    IF target \in DOMAIN adjacency THEN adjacency[target] ELSE <<>>

\* Faulty variant of PopLeft: the path is taken from the right end of the deque.
PopRight(queue) == <<queue[Len(queue)], SubSeq(queue, 1, Len(queue) - 1)>>

\* cur_path = to_walk_paths.popleft(): the path taken and the deque left
PopLeft(queue) == <<Head(queue), Tail(queue)>>

\* Faulty variant of CurrentEdge: the key names the node alone, whatever the
\* predecessor.
CurrentEdgeNodeOnly(cur_path) == <<None, cur_path[Len(cur_path)]>>

\* current_edge = (prev_target, target)
CurrentEdge(cur_path) ==
    <<IF Len(cur_path) > 1 THEN cur_path[Len(cur_path) - 1] ELSE None,
      cur_path[Len(cur_path)]>>

\* Faulty variant of DepPaths: the dependency replaces the last address of
\* cur_path instead of following it.
DepPathsDropsTarget(cur_path, deps) ==
    [i \in 1..Len(deps) |-> Append(SubSeq(cur_path, 1, Len(cur_path) - 1), deps[i])]

\* Faulty variant of DepPaths: the list of dependencies is gone through twice.
DepPathsRepeated(cur_path, deps) ==
    [i \in 1..(2 * Len(deps)) |-> Append(cur_path, deps[((i - 1) % Len(deps)) + 1])]

\* dep_path = cur_path + [dep.address], for each dep of the list in order
DepPaths(cur_path, deps) == [i \in 1..Len(deps) |-> Append(cur_path, deps[i])]

\* The dep_paths that are yielded: dep.address == to_target
YieldedOf(dep_paths, destination) ==
    SelectSeq(dep_paths, LAMBDA p : p[Len(p)] = destination)

\* Faulty variant of EnqueuedOf: the paths that reach the destination are
\* appended as well.
EnqueuedOfAll(dep_paths, destination) == dep_paths

\* The dep_paths that are appended to to_walk_paths: the others
EnqueuedOf(dep_paths, destination) ==
    SelectSeq(dep_paths, LAMBDA p : p[Len(p)] # destination)

\* Faulty variant of AppendAll: the dep_paths go to the left end of the deque.
AppendAllLeft(queue, dep_paths) == dep_paths \o queue

\* to_walk_paths.append(dep_path), for the dep_paths in order
AppendAll(queue, dep_paths) == queue \o dep_paths

\* Faulty variant of MarkVisited: the edge is never recorded.
MarkVisitedForgotten(visited, edge) == visited

\* visited_edges.add(current_edge)
MarkVisited(visited, edge) == visited \cup {edge}

InitPathsSmall ==
    /\ \E E \in {F \in SUBSET (SmallAddress \X SmallAddress) : Cardinality(F) <= MaxEdges} :
          adjacency_lists = AdjacencyOf(E)
    /\ from_target \in SmallAddress
    /\ to_target \in SmallAddress

InitPathsWide ==
    /\ \E E \in {F \in SUBSET ((PathAddress \ {"e"}) \X PathAddress) :
                    Cardinality(F) <= MaxWideEdges} :
          adjacency_lists = AdjacencyOf(E)
    /\ from_target = "a"
    /\ to_target = "e"

\* The dependents goal is not running.
DependentsOff ==
    /\ dependencies_per_target = <<>>
    /\ address_to_dependents = EmptyMapping
    /\ rule_pc = "off"
    /\ addresses = {}
    /\ fd = [q \in Requests |-> [pc |-> "off", check |-> {}, known_dependents |-> {},
                                 result |-> {}, iterations |-> 0]]

InitPaths ==
    /\ InitPathsSmall \/ InitPathsWide
    /\ paths_pc = "start"
    /\ visited_edges = {}
    /\ to_walk_paths = <<>>
    /\ enqueued = <<>>
    /\ yielded = <<>>
    /\ DependentsOff
    /\ PathsGoalOff
    /\ DependentsGoalOff
    /\ WalksOff
    /\ DeployOff

\* Faulty variant of TrivialPath: the return after the yield is missing.
TrivialPathNoReturn ==
    /\ paths_pc = "start"
    /\ from_target = to_target
    /\ yielded' = Append(yielded, <<from_target>>)
    /\ visited_edges' = {}
    /\ to_walk_paths' = <<<<from_target>>>>
    /\ enqueued' = Append(enqueued, <<from_target>>)
    /\ paths_pc' = "loop"
    /\ UNCHANGED <<adjacency_lists, from_target, to_target>>
    /\ UNCHANGED not_path_vars

\* if from_target == to_target: yield [from_target]; return
TrivialPath ==
    /\ paths_pc = "start"
    /\ from_target = to_target
    /\ yielded' = Append(yielded, <<from_target>>)
    /\ paths_pc' = "done"
    /\ UNCHANGED <<adjacency_lists, from_target, to_target, visited_edges, to_walk_paths,
                   enqueued>>
    /\ UNCHANGED not_path_vars

\* Faulty variant of StartWalk: [from_target] is yielded whether or not it is
\* the destination.
StartWalkYieldsRoot ==
    /\ paths_pc = "start"
    /\ from_target # to_target
    /\ yielded' = Append(yielded, <<from_target>>)
    /\ visited_edges' = {}
    /\ to_walk_paths' = <<<<from_target>>>>
    /\ enqueued' = Append(enqueued, <<from_target>>)
    /\ paths_pc' = "loop"
    /\ UNCHANGED <<adjacency_lists, from_target, to_target>>
    /\ UNCHANGED not_path_vars

\* visited_edges = set(); to_walk_paths = deque([[from_target]])
StartWalk ==
    /\ paths_pc = "start"
    /\ from_target # to_target
    /\ visited_edges' = {}
    /\ to_walk_paths' = <<<<from_target>>>>
    /\ enqueued' = Append(enqueued, <<from_target>>)
    /\ paths_pc' = "loop"
    /\ UNCHANGED <<adjacency_lists, from_target, to_target, yielded>>
    /\ UNCHANGED not_path_vars

\* One round of the while loop whose current_edge is not in visited_edges.
WalkExpand ==
    /\ paths_pc = "loop"
    /\ Len(to_walk_paths) > 0
    /\ LET popped == PopLeft(to_walk_paths)
           cur_path == popped[1]
           target == cur_path[Len(cur_path)]
           current_edge == CurrentEdge(cur_path)
           dep_paths == DepPaths(cur_path, GetList(adjacency_lists, target))
       IN  /\ current_edge \notin visited_edges
           /\ yielded' = yielded \o YieldedOf(dep_paths, to_target)
           /\ to_walk_paths' = AppendAll(popped[2], EnqueuedOf(dep_paths, to_target))
           /\ enqueued' = enqueued \o EnqueuedOf(dep_paths, to_target)
           /\ visited_edges' = MarkVisited(visited_edges, current_edge)
    /\ UNCHANGED <<adjacency_lists, from_target, to_target, paths_pc>>
    /\ UNCHANGED not_path_vars

\* Faulty variant of WalkSkip: the path is expanded although its current_edge
\* is in visited_edges.
WalkSkipStillExpands ==
    /\ paths_pc = "loop"
    /\ Len(to_walk_paths) > 0
    /\ LET popped == PopLeft(to_walk_paths)
           cur_path == popped[1]
           dep_paths == DepPaths(cur_path, GetList(adjacency_lists, cur_path[Len(cur_path)]))
       IN  /\ CurrentEdge(cur_path) \in visited_edges
           /\ yielded' = yielded \o YieldedOf(dep_paths, to_target)
           /\ to_walk_paths' = AppendAll(popped[2], EnqueuedOf(dep_paths, to_target))
           /\ enqueued' = enqueued \o EnqueuedOf(dep_paths, to_target)
    /\ UNCHANGED <<adjacency_lists, from_target, to_target, paths_pc, visited_edges>>
    /\ UNCHANGED not_path_vars

\* One round of the while loop whose current_edge is in visited_edges.
WalkSkip ==
    /\ paths_pc = "loop"
    /\ Len(to_walk_paths) > 0
    /\ LET popped == PopLeft(to_walk_paths)
       IN  /\ CurrentEdge(popped[1]) \in visited_edges
           /\ to_walk_paths' = popped[2]
    /\ UNCHANGED <<adjacency_lists, from_target, to_target, paths_pc, visited_edges, yielded,
                   enqueued>>
    /\ UNCHANGED not_path_vars

\* while len(to_walk_paths) > 0 fails: the generator is exhausted.
WalkDone ==
    /\ paths_pc = "loop"
    /\ Len(to_walk_paths) = 0
    /\ paths_pc' = "done"
    /\ UNCHANGED <<adjacency_lists, from_target, to_target, visited_edges, to_walk_paths,
                   yielded, enqueued>>
    /\ UNCHANGED not_path_vars

NextPaths ==
    \/ TrivialPath
    \/ StartWalk
    \/ WalkExpand
    \/ WalkSkip
    \/ WalkDone

SpecPaths == InitPaths /\ [][NextPaths]_vars

\* The generator is driven by a for loop that takes every path it yields
\* (paths.py:135), so a round that can run does run.
FairSpecPaths == SpecPaths /\ WF_vars(NextPaths)

---------------------------------------------------------------------------
\* paths.py: the goal rule paths() and the rules under it

\* At most this many edges in the build graph of the paths goal.
MaxGoalEdges == 3

GoalAddress == {"a", "b", "c"}

\* What a --from or --to spec can resolve to: up to two distinct targets.
TargetLists ==
    {<<>>} \cup {<<x>> : x \in GoalAddress}
           \cup {<<x, y>> : <<x, y>> \in {z \in GoalAddress \X GoalAddress : z[1] # z[2]}}

\* The build graph of an edge set: every target has its sorted dependency list.
GraphOf(E) ==
    [n \in GoalAddress |-> SortedList({e[2] : e \in {x \in E : x[1] = n}})]

RECURSIVE ClosureFrom(_, _)
\* transitive_targets.closure: the root and all it reaches through graph.
ClosureFrom(graph, seen) ==
    LET more == UNION {{graph[n][k] : k \in 1..Len(graph[n])} : n \in seen} \ seen
    IN  IF more = {} THEN seen ELSE ClosureFrom(graph, seen \cup more)

\* adjacency_lists = dict(zip(closure addresses, adjacent_targets_per_target))
ClosureAdjacency(graph, root) == [n \in ClosureFrom(graph, {root}) |-> graph[n]]

RECURSIVE WalkLoop(_, _, _, _, _)
\* The while loop of find_paths_breadth_first run to exhaustion: the paths it
\* yields after out, from the deque queue and the set visited.
WalkLoop(adjacency, destination, queue, visited, out) ==
    IF Len(queue) = 0 THEN out
    ELSE LET popped == PopLeft(queue)
             cur_path == popped[1]
             current_edge == CurrentEdge(cur_path)
             dep_paths == DepPaths(cur_path, GetList(adjacency, cur_path[Len(cur_path)]))
         IN  IF current_edge \notin visited
             THEN WalkLoop(adjacency, destination,
                           AppendAll(popped[2], EnqueuedOf(dep_paths, destination)),
                           MarkVisited(visited, current_edge),
                           out \o YieldedOf(dep_paths, destination))
             ELSE WalkLoop(adjacency, destination, popped[2], visited, out)

\* list(find_paths_breadth_first(adjacency_lists, from, to))
FindPathsBreadthFirst(adjacency, from, to) ==
    IF from = to THEN <<<<from>>>>
    ELSE WalkLoop(adjacency, to, <<<<from>>>>, {}, <<>>)

\* get_paths_between_root_and_destination: SpecsPaths.paths of one pair
\* (address.spec of an address is the string that names it).
SpecsPathsOf(graph, root, destination) ==
    FindPathsBreadthFirst(ClosureAdjacency(graph, root), root, destination)

\* Faulty variant of Concurrently: the results come in the order in which the
\* calls completed.
ConcurrentlyInCompletionOrder(awaited, order) ==
    [k \in 1..Len(order) |-> awaited[order[k]]]

\* await concurrently(...): the results of the calls, in the order of the
\* calls, whatever the order in which they completed.
Concurrently(awaited, order) == awaited

RECURSIVE Extend(_)
\* all_spec_paths.extend(path) for each list of paths, in order
Extend(lists) ==
    IF Len(lists) = 0 THEN <<>> ELSE Head(lists) \o Extend(Tail(lists))

\* Faulty variant of OptionsError: only --from is checked.
OptionsErrorFromOnly(from, to) ==
    IF from = NoList THEN "Must set --from" ELSE None

\* if path_from is None: raise ValueError("Must set --from")
\* if path_to is None: raise ValueError("Must set --to")
OptionsError(from, to) ==
    IF from = NoList THEN "Must set --from"
    ELSE IF to = NoList THEN "Must set --to"
    ELSE None

\* resolve_targets of the specs parsed from one option. A spec is held as the
\* targets it resolves to; an unset option, were it passed on, names none.
ResolveTargets(option) == IF option = NoList THEN <<>> ELSE option[1]

InitPathsGoal ==
    /\ path_from \in {NoList} \cup {Some(spec) : spec \in TargetLists}
    /\ path_to \in {NoList} \cup {Some(spec) : spec \in TargetLists}
    /\ \E E \in {F \in SUBSET (GoalAddress \X GoalAddress) : Cardinality(F) <= MaxGoalEdges} :
          goal_graph = GraphOf(E)
    /\ goal_pc = "start"
    /\ goal_error = None
    /\ from_tgts = NoList
    /\ to_tgts = NoList
    /\ pair_paths = EmptyMapping
    /\ pair_order = <<>>
    /\ root_collections = <<>>
    /\ root_order = <<>>
    /\ console = <<>>
    /\ DependentsOff
    /\ PathsOff
    /\ DependentsGoalOff
    /\ WalksOff
    /\ DeployOff

\* paths(): an option is unset, the ValueError ends the goal.
PathsRaise ==
    /\ goal_pc = "start"
    /\ OptionsError(path_from, path_to) # None
    /\ goal_error' = OptionsError(path_from, path_to)
    /\ goal_pc' = "raised"
    /\ UNCHANGED <<path_from, path_to, goal_graph, from_tgts, to_tgts, pair_paths,
                   pair_order, root_collections, root_order, console>>
    /\ UNCHANGED not_goal_vars

\* paths(): both options are set; from_tgts and to_tgts are resolved and one
\* rule per root, with one rule per destination under it, is requested.
PathsResolve ==
    /\ goal_pc = "start"
    /\ OptionsError(path_from, path_to) = None
    /\ from_tgts' = Some(ResolveTargets(path_from))
    /\ to_tgts' = Some(ResolveTargets(path_to))
    /\ pair_paths' = [pair \in (1..Len(ResolveTargets(path_from)))
                                \X (1..Len(ResolveTargets(path_to))) |-> NoList]
    /\ pair_order' = [i \in 1..Len(ResolveTargets(path_from)) |-> <<>>]
    /\ root_collections' = [i \in 1..Len(ResolveTargets(path_from)) |-> NoList]
    /\ goal_pc' = "resolved"
    /\ UNCHANGED <<path_from, path_to, goal_graph, goal_error, root_order, console>>
    /\ UNCHANGED not_goal_vars

\* The rule get_paths_between_root_and_destination of one pair completes.
GetPathsBetweenRootAndDestination(i, j) ==
    /\ goal_pc = "resolved"
    /\ <<i, j>> \in DOMAIN pair_paths
    /\ pair_paths[<<i, j>>] = NoList
    /\ pair_paths' = [pair_paths EXCEPT
          ![<<i, j>>] = Some(SpecsPathsOf(goal_graph, from_tgts[1][i], to_tgts[1][j]))]
    /\ pair_order' = [pair_order EXCEPT ![i] = Append(@, j)]
    /\ UNCHANGED <<path_from, path_to, goal_graph, goal_pc, goal_error, from_tgts, to_tgts,
                   root_collections, root_order, console>>
    /\ UNCHANGED not_goal_vars

\* The rule get_paths_between_root_and_destinations of one root completes,
\* once the rules of its destinations have.
GetPathsBetweenRootAndDestinations(i) ==
    /\ goal_pc = "resolved"
    /\ i \in DOMAIN root_collections
    /\ root_collections[i] = NoList
    /\ Len(pair_order[i]) = Len(to_tgts[1])
    /\ root_collections' = [root_collections EXCEPT
          ![i] = Some(Concurrently([j \in 1..Len(to_tgts[1]) |-> pair_paths[<<i, j>>][1]],
                                   pair_order[i]))]
    /\ root_order' = Append(root_order, i)
    /\ UNCHANGED <<path_from, path_to, goal_graph, goal_pc, goal_error, from_tgts, to_tgts,
                   pair_paths, pair_order, console>>
    /\ UNCHANGED not_goal_vars

\* paths(): the rules of all roots have completed; all_spec_paths is built
\* and written.
PathsWrite ==
    /\ goal_pc = "resolved"
    /\ Len(root_order) = Len(from_tgts[1])
    /\ LET spec_paths ==
               Concurrently([i \in 1..Len(root_collections) |-> root_collections[i][1]],
                            root_order)
           all_spec_paths ==
               Extend([k \in 1..Len(spec_paths) |-> Extend(spec_paths[k])])
       IN  console' = Append(console, all_spec_paths)
    /\ goal_pc' = "written"
    /\ UNCHANGED <<path_from, path_to, goal_graph, goal_error, from_tgts, to_tgts,
                   pair_paths, pair_order, root_collections, root_order>>
    /\ UNCHANGED not_goal_vars

NextPathsGoal ==
    \/ PathsRaise
    \/ PathsResolve
    \/ \E i \in 1..2 : \E j \in 1..2 : GetPathsBetweenRootAndDestination(i, j)
    \/ \E i \in 1..2 : GetPathsBetweenRootAndDestinations(i)
    \/ PathsWrite

SpecPathsGoal == InitPathsGoal /\ [][NextPathsGoal]_vars

---------------------------------------------------------------------------
\* dependents.py: the goal rule dependents_goal and the two listings

\* What the specs of the command line can resolve to: up to two distinct addresses.
AddressLists ==
    {<<>>} \cup {<<x>> : x \in Address}
           \cup {<<x, y>> : <<x, y>> \in {z \in Address \X Address : z[1] # z[2]}}

\* The options of DependentsSubsystem.
DependentsOptions == [transitive : BOOLEAN, closed : BOOLEAN, format : {"text", "json"}]

\* sorted(...) of a set of addresses: all_targets is in sort order.
SortedAddresses(S) == SelectSeq(all_targets, LAMBDA x : x \in S)

\* set(request.addresses) of a request built from a tuple of addresses
AddressSet(request_addresses) ==
    {request_addresses[i] : i \in 1..Len(request_addresses)}

\* Faulty variant of JsonRequest: every call is given all the addresses.
JsonRequestAllAddresses(input_addresses, i) == input_addresses

\* DependentsRequest((address,), ...) for the i-th address of the goal
JsonRequest(input_addresses, i) == <<input_addresses[i]>>

\* DependentsRequest(addresses, ...) of the plain-text listing
TextRequest(input_addresses) == input_addresses

\* The addresses of the request of the i-th call awaited by the goal.
RequestOf(i) ==
    IF dependents_subsystem.format = "text"
    THEN TextRequest(specified_addresses)
    ELSE JsonRequest(specified_addresses, i)

\* dict(zip(keys, values)), in insertion order; the keys are distinct.
DictZip(keys, values) ==
    [i \in 1..(IF Len(keys) < Len(values) THEN Len(keys) ELSE Len(values)) |->
        <<keys[i], values[i]>>]

RECURSIVE FindDependentsLoop(_, _, _, _, _, _)
\* The while loop of find_dependents, run until it returns; roots is
\* set(request.addresses).
FindDependentsLoop(check, known_dependents, mapping, roots, transitive, include_roots) ==
    LET dependents == Expand(check, known_dependents, mapping)
        new_check == dependents \ known_dependents
    IN  IF ShouldReturn(new_check, transitive)
        THEN Result(dependents, roots, include_roots)
        ELSE FindDependentsLoop(new_check, dependents, mapping, roots, transitive,
                                include_roots)

\* find_dependents run alone on one request; the result as a set.
FindDependents(request_addresses, mapping, transitive, include_roots) ==
    FindDependentsLoop(FdStart(request_addresses).check,
                       FdStart(request_addresses).known_dependents,
                       mapping, request_addresses, transitive, include_roots)

InitDependentsGoal ==
    /\ dependencies_per_target \in DependencyInputs
    /\ address_to_dependents = EmptyMapping
    /\ rule_pc = "start"
    /\ addresses = {}
    /\ fd = [q \in Requests |-> [pc |-> "off", check |-> {}, known_dependents |-> {},
                                 result |-> {}, iterations |-> 0]]
    /\ specified_addresses \in AddressLists
    /\ dependents_subsystem \in DependentsOptions
    /\ dgoal_pc = "start"
    /\ dependents_group = <<>>
    /\ group_order = <<>>
    /\ PathsOff
    /\ PathsGoalOff
    /\ WalksOff
    /\ DeployOff

\* dependents_goal, text format: list_dependents_as_plain_text awaits one
\* find_dependents on all the addresses.
AwaitPlainText ==
    /\ dgoal_pc = "start"
    /\ dependents_subsystem.format = "text"
    /\ dependents_group' = <<FdStart(AddressSet(TextRequest(specified_addresses)))>>
    /\ dgoal_pc' = "awaiting"
    /\ UNCHANGED <<specified_addresses, dependents_subsystem, group_order>>
    /\ UNCHANGED <<dep_vars, path_vars, goal_vars, walks, deploy_vars>>

\* dependents_goal, json format: list_dependents_as_json awaits one
\* find_dependents per address, concurrently.
AwaitJson ==
    /\ dgoal_pc = "start"
    /\ dependents_subsystem.format = "json"
    /\ dependents_group' =
          [i \in 1..Len(specified_addresses) |->
              FdStart(AddressSet(JsonRequest(specified_addresses, i)))]
    /\ dgoal_pc' = "awaiting"
    /\ UNCHANGED <<specified_addresses, dependents_subsystem, group_order>>
    /\ UNCHANGED <<dep_vars, path_vars, goal_vars, walks, deploy_vars>>

\* One round of the while loop of the i-th awaited find_dependents that ends
\* in the return.
GroupFindDependentsReturn(i) ==
    /\ dgoal_pc = "awaiting"
    /\ rule_pc = "mapped"
    /\ i \in DOMAIN dependents_group
    /\ dependents_group[i].pc = "loop"
    /\ LET call == dependents_group[i]
           dependents == Expand(call.check, call.known_dependents, address_to_dependents)
           check == dependents \ call.known_dependents
       IN  /\ ShouldReturn(check, dependents_subsystem.transitive)
           /\ dependents_group' = [dependents_group EXCEPT ![i] =
                 [pc |-> "returned", check |-> check,
                  known_dependents |-> call.known_dependents,
                  result |-> Result(dependents, AddressSet(RequestOf(i)),
                                    dependents_subsystem.closed),
                  iterations |-> call.iterations + 1]]
    /\ group_order' = Append(group_order, i)
    /\ UNCHANGED <<specified_addresses, dependents_subsystem, dgoal_pc>>
    /\ UNCHANGED <<dep_vars, path_vars, goal_vars, walks, deploy_vars>>

\* One round of the while loop of the i-th awaited find_dependents that goes
\* round again.
GroupFindDependentsContinue(i) ==
    /\ dgoal_pc = "awaiting"
    /\ rule_pc = "mapped"
    /\ i \in DOMAIN dependents_group
    /\ dependents_group[i].pc = "loop"
    /\ LET call == dependents_group[i]
           dependents == Expand(call.check, call.known_dependents, address_to_dependents)
           check == dependents \ call.known_dependents
       IN  /\ ~ShouldReturn(check, dependents_subsystem.transitive)
           /\ dependents_group' = [dependents_group EXCEPT ![i] =
                 [pc |-> "loop", check |-> check, known_dependents |-> dependents,
                  result |-> {}, iterations |-> call.iterations + 1]]
    /\ UNCHANGED <<specified_addresses, dependents_subsystem, dgoal_pc, group_order>>
    /\ UNCHANGED <<dep_vars, path_vars, goal_vars, walks, deploy_vars>>

\* list_dependents_as_plain_text after its await: one line per dependent, in
\* the sorted order in which find_dependents returns them.
ListDependentsAsPlainText ==
    /\ dgoal_pc = "awaiting"
    /\ dependents_subsystem.format = "text"
    /\ Len(group_order) = Len(dependents_group)
    /\ console' = console \o SortedAddresses(dependents_group[1].result)
    /\ dgoal_pc' = "written"
    /\ UNCHANGED <<path_from, path_to, goal_graph, goal_pc, goal_error, from_tgts, to_tgts,
                   pair_paths, pair_order, root_collections, root_order>>
    /\ UNCHANGED <<specified_addresses, dependents_subsystem, dependents_group, group_order>>
    /\ UNCHANGED <<dep_vars, path_vars, walks, deploy_vars>>

\* list_dependents_as_json after its await: the mapping is built and written.
ListDependentsAsJson ==
    /\ dgoal_pc = "awaiting"
    /\ dependents_subsystem.format = "json"
    /\ Len(group_order) = Len(dependents_group)
    /\ LET group == Concurrently([i \in 1..Len(dependents_group) |->
                                     dependents_group[i].result], group_order)
           iterated_addresses == [k \in 1..Len(group) |-> SortedAddresses(group[k])]
           mapping == DictZip(specified_addresses, iterated_addresses)
       IN  console' = Append(console, mapping)
    /\ dgoal_pc' = "written"
    /\ UNCHANGED <<path_from, path_to, goal_graph, goal_pc, goal_error, from_tgts, to_tgts,
                   pair_paths, pair_order, root_collections, root_order>>
    /\ UNCHANGED <<specified_addresses, dependents_subsystem, dependents_group, group_order>>
    /\ UNCHANGED <<dep_vars, path_vars, walks, deploy_vars>>

NextDependentsGoal ==
    \/ MapAddressesToDependents
    \/ AwaitPlainText
    \/ AwaitJson
    \/ \E i \in 1..2 : GroupFindDependentsReturn(i)
    \/ \E i \in 1..2 : GroupFindDependentsContinue(i)
    \/ ListDependentsAsPlainText
    \/ ListDependentsAsJson

SpecDependentsGoal == InitDependentsGoal /\ [][NextDependentsGoal]_vars

---------------------------------------------------------------------------
\* Queries that run side by side over one snapshot: the enumerations of
\* find_paths_breadth_first from one root to two destinations, as requested by
\* get_paths_between_root_and_destinations, and two find_dependents requests.

\* At most this many dependency edges in the shared snapshot.
MaxConcurrentEdges == 2

WalkIds == {1, 2}

\* The requests that are evaluated side by side.
ConcurrentRequests ==
    {[transitive |-> TRUE, include_roots |-> FALSE],
     [transitive |-> FALSE, include_roots |-> TRUE]}

\* The adjacency lists of the snapshot: each target with the sorted list of
\* its dependencies.
SnapshotAdjacency(deps) ==
    [n \in Address |->
        SortedAddresses(deps[CHOOSE i \in 1..Len(all_targets) : all_targets[i] = n])]

\* Faulty variant of VisitedOf: one visited_edges set for all the generators.
VisitedOfAll(w, t) == UNION {w[u].visited_edges : u \in DOMAIN w}

\* visited_edges, a local of each generator
VisitedOf(w, t) == w[t].visited_edges

InitConcurrent ==
    /\ dependencies_per_target \in
          {deps \in [1..Len(all_targets) -> SUBSET Address] :
              EdgeCount(deps) <= MaxConcurrentEdges}
    /\ address_to_dependents = BuildMapping(EmptyMapping, dependencies_per_target, 1)
    /\ rule_pc = "mapped"
    /\ addresses \in {{x} : x \in Address}
    /\ fd = [q \in Requests |->
                IF q \in ConcurrentRequests THEN FdStart(addresses)
                ELSE [pc |-> "off", check |-> {}, known_dependents |-> {}, result |-> {},
                      iterations |-> 0]]
    /\ adjacency_lists = SnapshotAdjacency(dependencies_per_target)
    /\ from_target = "None"
    /\ to_target = "None"
    /\ paths_pc = "off"
    /\ visited_edges = {}
    /\ to_walk_paths = <<>>
    /\ enqueued = <<>>
    /\ yielded = <<>>
    /\ \E root \in Address, destinations \in [WalkIds -> Address] :
          walks = [t \in WalkIds |->
                      [from_target |-> root, to_target |-> destinations[t], pc |-> "start",
                       visited_edges |-> {}, to_walk_paths |-> <<>>, yielded |-> <<>>]]
    /\ PathsGoalOff
    /\ DependentsGoalOff
    /\ DeployOff

\* Generator t: if from_target == to_target: yield [from_target]; return
ConcurrentTrivialPath(t) ==
    /\ walks[t].pc = "start"
    /\ walks[t].from_target = walks[t].to_target
    /\ walks' = [walks EXCEPT ![t].yielded = Append(@, <<walks[t].from_target>>),
                              ![t].pc = "done"]
    /\ UNCHANGED <<dep_vars, path_vars, goal_vars, dgoal_vars, deploy_vars>>

\* Generator t: visited_edges = set(); to_walk_paths = deque([[from_target]])
ConcurrentStartWalk(t) ==
    /\ walks[t].pc = "start"
    /\ walks[t].from_target # walks[t].to_target
    /\ walks' = [walks EXCEPT ![t].visited_edges = {},
                              ![t].to_walk_paths = <<<<walks[t].from_target>>>>,
                              ![t].pc = "loop"]
    /\ UNCHANGED <<dep_vars, path_vars, goal_vars, dgoal_vars, deploy_vars>>

\* Generator t: one round of the while loop whose current_edge is not in
\* visited_edges.
ConcurrentWalkExpand(t) ==
    /\ walks[t].pc = "loop"
    /\ Len(walks[t].to_walk_paths) > 0
    /\ LET popped == PopLeft(walks[t].to_walk_paths)
           cur_path == popped[1]
           target == cur_path[Len(cur_path)]
           current_edge == CurrentEdge(cur_path)
           dep_paths == DepPaths(cur_path, GetList(adjacency_lists, target))
       IN  /\ current_edge \notin VisitedOf(walks, t)
           /\ walks' = [walks EXCEPT
                 ![t].yielded = @ \o YieldedOf(dep_paths, walks[t].to_target),
                 ![t].to_walk_paths =
                     AppendAll(popped[2], EnqueuedOf(dep_paths, walks[t].to_target)),
                 ![t].visited_edges = MarkVisited(@, current_edge)]
    /\ UNCHANGED <<dep_vars, path_vars, goal_vars, dgoal_vars, deploy_vars>>

\* Generator t: one round of the while loop whose current_edge is in
\* visited_edges.
ConcurrentWalkSkip(t) ==
    /\ walks[t].pc = "loop"
    /\ Len(walks[t].to_walk_paths) > 0
    /\ LET popped == PopLeft(walks[t].to_walk_paths)
       IN  /\ CurrentEdge(popped[1]) \in VisitedOf(walks, t)
           /\ walks' = [walks EXCEPT ![t].to_walk_paths = popped[2]]
    /\ UNCHANGED <<dep_vars, path_vars, goal_vars, dgoal_vars, deploy_vars>>

\* Generator t: while len(to_walk_paths) > 0 fails.
ConcurrentWalkDone(t) ==
    /\ walks[t].pc = "loop"
    /\ Len(walks[t].to_walk_paths) = 0
    /\ walks' = [walks EXCEPT ![t].pc = "done"]
    /\ UNCHANGED <<dep_vars, path_vars, goal_vars, dgoal_vars, deploy_vars>>

NextConcurrent ==
    \/ \E t \in WalkIds : ConcurrentTrivialPath(t)
    \/ \E t \in WalkIds : ConcurrentStartWalk(t)
    \/ \E t \in WalkIds : ConcurrentWalkExpand(t)
    \/ \E t \in WalkIds : ConcurrentWalkSkip(t)
    \/ \E t \in WalkIds : ConcurrentWalkDone(t)
    \/ \E q \in ConcurrentRequests : FindDependentsReturn(q)
    \/ \E q \in ConcurrentRequests : FindDependentsContinue(q)

SpecConcurrent == InitConcurrent /\ [][NextConcurrent]_vars

---------------------------------------------------------------------------
\* core/goals/deploy.py: the goal rule run_deploy

\* At most this many publish processes.
MaxPublish == 3

\* The numbers of deploy processes.
DeployLengths == {0, 1, 2}

\* The exit codes a process can give.
ExitCodes == {0, 1, 2}

\* A PublishPackages: its process is a Process (run in the background), an
\* InteractiveProcess, or None; code is the exit code its process gives.
PublishPackages ==
    [kind : {"Process", "InteractiveProcess"}, code : ExitCodes]
        \cup {[kind |-> "None", code |-> 0]}

\* A DeployProcess: its process is an InteractiveProcess or None.
DeployProcess ==
    [kind : {"InteractiveProcess"}, code : ExitCodes] \cup {[kind |-> "None", code |-> 0]}

\* The sequences over S whose length is in lengths.
SeqOfLengths(S, lengths) == UNION {[1..k -> S] : k \in lengths}

\* The positions of processes, in list order, whose process is of one of kinds.
PositionsOf(processes, kinds) ==
    SelectSeq([k \in 1..Len(processes) |-> k], LAMBDA k : processes[k].kind \in kinds)

\* [publish for publish in publish_processes if isinstance(publish.process, Process)]
BackgroundPublishProcesses(processes) == PositionsOf(processes, {"Process"})

\* Faulty variant of ForegroundPublishProcesses: the list is reversed.
ForegroundPublishProcessesReversed(processes) ==
    LET fg == PositionsOf(processes, {"InteractiveProcess", "None"})
    IN  [n \in 1..Len(fg) |-> fg[Len(fg) + 1 - n]]

\* [publish for publish in publish_processes
\*  if isinstance(publish.process, InteractiveProcess) or publish.process is None]
ForegroundPublishProcesses(processes) ==
    PositionsOf(processes, {"InteractiveProcess", "None"})

\* _process_results_to_string: the exit code and the status line of the name.
ProcessResultsToString(code, name, success_status) ==
    <<code, <<[name |-> name, status |-> IF code = 0 THEN success_status ELSE "failed"]>>>>

\* _invoke_process with no process: code 0 and the line that says skipped.
SkippedResult(name) == <<0, <<[name |-> name, status |-> "skipped"]>>>>

\* Faulty variant of UpdateExitCode: the last code is kept, also when it is 0.
UpdateExitCodeKeepsLast(ec, code) == ec

\* exit_code = ec if ec != 0 else exit_code
UpdateExitCode(ec, code) == IF ec # 0 THEN ec ELSE code

\* Faulty variant of ShouldDeploy: the exit code of the publishing is not looked at.
ShouldDeployWhateverPublished(code, deploys) == Len(deploys) > 0

\* if exit_code == 0 and deploy_processes
ShouldDeploy(code, deploys) == code = 0 /\ Len(deploys) > 0

RECURSIVE FoldBackground(_, _, _, _)
\* for pub, res in zip(background_publish_processes, background_results): ...
\* from position n on; acc is <<exit_code, results>> so far.
FoldBackground(background, codes, n, acc) ==
    IF n > Len(background) \/ n > Len(codes) THEN acc
    ELSE LET r == ProcessResultsToString(codes[n], <<"publish", background[n]>>, "published")
         IN  FoldBackground(background, codes, n + 1,
                            <<UpdateExitCode(r[1], acc[1]), acc[2] \o r[2]>>)

InitDeploy ==
    /\ deploy_processes \in SeqOfLengths(DeployProcess, DeployLengths)
    /\ publish_processes \in SeqOfLengths(PublishPackages, 0..MaxPublish)
    /\ deploy_processes = <<>> => publish_processes = <<>>
    /\ deploy_pc = "start"
    /\ background_results = <<>>
    /\ exit_code = 0
    /\ results = <<>>
    /\ next_index = 0
    /\ running = {}
    /\ log = <<>>
    /\ stderr = <<>>
    /\ DependentsOff
    /\ PathsOff
    /\ PathsGoalOff
    /\ DependentsGoalOff
    /\ WalksOff

\* Where run_deploy goes on after the publishing: to the deploy loop or to
\* the printing of the results.
AfterPublish(code, deploys) == IF ShouldDeploy(code, deploys) THEN "deploying" ELSE "print"

\* A blank line, and the line printed when there are no results.
BlankLine == [name |-> <<>>, status |-> ""]

NothingDeployed == [name |-> <<>>, status |-> "Nothing deployed."]

\* run_deploy: there are no publish processes.
StartNoPublish ==
    /\ deploy_pc = "start"
    /\ Len(publish_processes) = 0
    /\ deploy_pc' = AfterPublish(exit_code, deploy_processes)
    /\ next_index' = 1
    /\ UNCHANGED <<publish_processes, deploy_processes, background_results, exit_code,
                   results, running, log, stderr>>
    /\ UNCHANGED <<dep_vars, path_vars, goal_vars, dgoal_vars, walks>>

\* run_deploy: there are publish processes; the background ones are all
\* executed concurrently.
StartPublish ==
    /\ deploy_pc = "start"
    /\ Len(publish_processes) > 0
    /\ LET background == BackgroundPublishProcesses(publish_processes)
       IN  /\ background_results' = [n \in 1..Len(background) |-> NoList]
           /\ running' = {<<"publish", background[n]>> : n \in 1..Len(background)}
           /\ log' = log \o [n \in 1..Len(background) |->
                                <<"invoke", "publish", background[n]>>]
    /\ deploy_pc' = "background"
    /\ UNCHANGED <<publish_processes, deploy_processes, exit_code, results, next_index,
                   stderr>>
    /\ UNCHANGED <<dep_vars, path_vars, goal_vars, dgoal_vars, walks>>

\* execute_process of the n-th background publish completes.
ExecuteProcess(n) ==
    /\ deploy_pc = "background"
    /\ n \in DOMAIN background_results
    /\ background_results[n] = NoList
    /\ LET k == BackgroundPublishProcesses(publish_processes)[n]
       IN  /\ background_results' =
                 [background_results EXCEPT ![n] = Some(publish_processes[k].code)]
           /\ running' = running \ {<<"publish", k>>}
           /\ log' = Append(log, <<"exit", "publish", k>>)
    /\ UNCHANGED <<publish_processes, deploy_processes, deploy_pc, exit_code, results,
                   next_index, stderr>>
    /\ UNCHANGED <<dep_vars, path_vars, goal_vars, dgoal_vars, walks>>

\* run_deploy after the background publishes: their results are gone
\* through in list order.
BackgroundPublished ==
    /\ deploy_pc = "background"
    /\ \A n \in DOMAIN background_results : background_results[n] # NoList
    /\ LET acc == FoldBackground(BackgroundPublishProcesses(publish_processes),
                                 [n \in DOMAIN background_results |->
                                     background_results[n][1]],
                                 1, <<exit_code, results>>)
       IN  /\ exit_code' = acc[1]
           /\ results' = acc[2]
    /\ deploy_pc' = "foreground"
    /\ next_index' = 1
    /\ UNCHANGED <<publish_processes, deploy_processes, background_results, running, log,
                   stderr>>
    /\ UNCHANGED <<dep_vars, path_vars, goal_vars, dgoal_vars, walks>>

\* The for loop over the foreground publishes: _invoke_process runs the
\* InteractiveProcess of the next one.
ForegroundInvoke ==
    /\ deploy_pc = "foreground"
    /\ running = {}
    /\ next_index <= Len(ForegroundPublishProcesses(publish_processes))
    /\ LET k == ForegroundPublishProcesses(publish_processes)[next_index]
       IN  /\ publish_processes[k].kind = "InteractiveProcess"
           /\ running' = {<<"publish", k>>}
           /\ log' = Append(log, <<"invoke", "publish", k>>)
    /\ UNCHANGED <<publish_processes, deploy_processes, deploy_pc, background_results,
                   exit_code, results, next_index, stderr>>
    /\ UNCHANGED <<dep_vars, path_vars, goal_vars, dgoal_vars, walks>>

\* The InteractiveProcess of the foreground publish has exited.
ForegroundExit ==
    /\ deploy_pc = "foreground"
    /\ running # {}
    /\ LET k == ForegroundPublishProcesses(publish_processes)[next_index]
           r == ProcessResultsToString(publish_processes[k].code, <<"publish", k>>,
                                       "published")
       IN  /\ exit_code' = UpdateExitCode(r[1], exit_code)
           /\ results' = results \o r[2]
           /\ log' = Append(log, <<"exit", "publish", k>>)
    /\ running' = {}
    /\ next_index' = next_index + 1
    /\ UNCHANGED <<publish_processes, deploy_processes, deploy_pc, background_results,
                   stderr>>
    /\ UNCHANGED <<dep_vars, path_vars, goal_vars, dgoal_vars, walks>>

\* The next foreground publish has no process: it is skipped.
ForegroundSkip ==
    /\ deploy_pc = "foreground"
    /\ running = {}
    /\ next_index <= Len(ForegroundPublishProcesses(publish_processes))
    /\ LET k == ForegroundPublishProcesses(publish_processes)[next_index]
           r == SkippedResult(<<"publish", k>>)
       IN  /\ publish_processes[k].kind = "None"
           /\ exit_code' = UpdateExitCode(r[1], exit_code)
           /\ results' = results \o r[2]
           /\ log' = Append(log, <<"skip", "publish", k>>)
    /\ next_index' = next_index + 1
    /\ UNCHANGED <<publish_processes, deploy_processes, deploy_pc, background_results,
                   running, stderr>>
    /\ UNCHANGED <<dep_vars, path_vars, goal_vars, dgoal_vars, walks>>

\* The foreground loop has ended: deploy only if everything was published.
PublishingDone ==
    /\ deploy_pc = "foreground"
    /\ running = {}
    /\ next_index > Len(ForegroundPublishProcesses(publish_processes))
    /\ deploy_pc' = AfterPublish(exit_code, deploy_processes)
    /\ next_index' = 1
    /\ UNCHANGED <<publish_processes, deploy_processes, background_results, exit_code,
                   results, running, log, stderr>>
    /\ UNCHANGED <<dep_vars, path_vars, goal_vars, dgoal_vars, walks>>

\* The for loop over deploy_processes: _invoke_process runs the process of
\* the next deploy.
DeployInvoke ==
    /\ deploy_pc = "deploying"
    /\ running = {}
    /\ next_index <= Len(deploy_processes)
    /\ deploy_processes[next_index].kind = "InteractiveProcess"
    /\ running' = {<<"deploy", next_index>>}
    /\ log' = Append(log, <<"invoke", "deploy", next_index>>)
    /\ UNCHANGED <<publish_processes, deploy_processes, deploy_pc, background_results,
                   exit_code, results, next_index, stderr>>
    /\ UNCHANGED <<dep_vars, path_vars, goal_vars, dgoal_vars, walks>>

\* The process of the deploy has exited.
DeployExit ==
    /\ deploy_pc = "deploying"
    /\ running # {}
    /\ LET r == ProcessResultsToString(deploy_processes[next_index].code,
                                       <<"deploy", next_index>>, "deployed")
       IN  /\ exit_code' = UpdateExitCode(r[1], exit_code)
           /\ results' = results \o r[2]
    /\ log' = Append(log, <<"exit", "deploy", next_index>>)
    /\ running' = {}
    /\ next_index' = next_index + 1
    /\ UNCHANGED <<publish_processes, deploy_processes, deploy_pc, background_results,
                   stderr>>
    /\ UNCHANGED <<dep_vars, path_vars, goal_vars, dgoal_vars, walks>>

\* The next deploy has no process: it is skipped.
DeploySkip ==
    /\ deploy_pc = "deploying"
    /\ running = {}
    /\ next_index <= Len(deploy_processes)
    /\ deploy_processes[next_index].kind = "None"
    /\ LET r == SkippedResult(<<"deploy", next_index>>)
       IN  /\ exit_code' = UpdateExitCode(r[1], exit_code)
           /\ results' = results \o r[2]
    /\ log' = Append(log, <<"skip", "deploy", next_index>>)
    /\ next_index' = next_index + 1
    /\ UNCHANGED <<publish_processes, deploy_processes, deploy_pc, background_results,
                   running, stderr>>
    /\ UNCHANGED <<dep_vars, path_vars, goal_vars, dgoal_vars, walks>>

\* The deploy loop has ended.
DeployingDone ==
    /\ deploy_pc = "deploying"
    /\ running = {}
    /\ next_index > Len(deploy_processes)
    /\ deploy_pc' = "print"
    /\ UNCHANGED <<publish_processes, deploy_processes, background_results, exit_code,
                   results, next_index, running, log, stderr>>
    /\ UNCHANGED <<dep_vars, path_vars, goal_vars, dgoal_vars, walks>>

\* The results are printed and Deploy(exit_code) is returned.
PrintResults ==
    /\ deploy_pc = "print"
    /\ stderr' = stderr \o <<BlankLine>>
                        \o (IF Len(results) = 0 THEN <<NothingDeployed>> ELSE results)
    /\ deploy_pc' = "done"
    /\ UNCHANGED <<publish_processes, deploy_processes, background_results, exit_code,
                   results, next_index, running, log>>
    /\ UNCHANGED <<dep_vars, path_vars, goal_vars, dgoal_vars, walks>>

NextDeploy ==
    \/ StartNoPublish
    \/ StartPublish
    \/ \E n \in 1..MaxPublish : ExecuteProcess(n)
    \/ BackgroundPublished
    \/ ForegroundInvoke
    \/ ForegroundExit
    \/ ForegroundSkip
    \/ PublishingDone
    \/ DeployInvoke
    \/ DeployExit
    \/ DeploySkip
    \/ DeployingDone
    \/ PrintResults

SpecDeploy == InitDeploy /\ [][NextDeploy]_vars

---------------------------------------------------------------------------
\* Reference notions for the dependents claims, defined on the data alone.

\* p is a chain of reverse-index edges: each element is a dependent of the
\* one before it.
IsReverseChain(p, mapping) ==
    \A i \in 1..(Len(p) - 1) : p[i + 1] \in Get(mapping, p[i])

\* The addresses reached from some root by one or more reverse-index edges.
\* A shortest chain repeats no address but possibly its first, so chains of
\* at most Cardinality(Address) + 1 addresses reach all of them.
ReverseReachable(mapping, roots) ==
    {n \in Address :
        \E k \in 2..(Cardinality(Address) + 1) :
            \E p \in [1..k -> Address] :
                /\ p[1] \in roots
                /\ p[k] = n
                /\ IsReverseChain(p, mapping)}

\* The direct dependents of the roots.
DirectDependents(mapping, roots) == UNION {Get(mapping, r) : r \in roots}

Req(t, i) == [transitive |-> t, include_roots |-> i]

Returned(q) == fd[q].pc = "returned"

\* C1: with transitive=true and include_roots=false, find_dependents returns
\* exactly the addresses reachable from some root by one or more reverse-index
\* edges, with every root removed.
C1_TransitiveDependentsExact ==
    Returned(Req(TRUE, FALSE)) =>
        fd[Req(TRUE, FALSE)].result =
            ReverseReachable(address_to_dependents, addresses) \ addresses

\* C1 witness: the open transitive request has returned on a cyclic index: a
\* root is itself reachable (and was removed) and the result holds a dependent
\* that is no direct dependent of any root.
C1_Witness ==
    /\ Returned(Req(TRUE, FALSE))
    /\ addresses \cap ReverseReachable(address_to_dependents, addresses) # {}
    /\ fd[Req(TRUE, FALSE)].result \ DirectDependents(address_to_dependents, addresses) # {}

\* C2: the mapping built by map_addresses_to_dependents is the inverse of the
\* forward dependency relation: N is in mapping.get(D, empty) iff D is among
\* the resolved dependencies of target N.
C2_MappingIsInverse ==
    rule_pc = "mapped" =>
        /\ \A i \in 1..Len(all_targets) : \A D \in Address :
              all_targets[i] \in Get(address_to_dependents, D)
                  <=> D \in dependencies_per_target[i]
        /\ \A D \in DOMAIN address_to_dependents :
              address_to_dependents[D] \subseteq Address

\* C2 witness: the mapping is built from a relation that is not symmetric,
\* with an address that has two dependents and an address that has none.
C2_Witness ==
    /\ rule_pc = "mapped"
    /\ \E D \in Address : Cardinality(Get(address_to_dependents, D)) = 2
    /\ \E D \in Address : D \notin DOMAIN address_to_dependents
    /\ \E i, j \in 1..Len(all_targets) :
          /\ all_targets[j] \in dependencies_per_target[i]
          /\ all_targets[i] \notin dependencies_per_target[j]

\* C6: for identical roots, index and transitive flag, the include_roots=true
\* result is the include_roots=false result united with the roots, and the
\* include_roots=false result holds no root.
C6_RootInclusionToggle ==
    \A t \in BOOLEAN :
        (Returned(Req(t, TRUE)) /\ Returned(Req(t, FALSE))) =>
            /\ fd[Req(t, TRUE)].result = fd[Req(t, FALSE)].result \cup addresses
            /\ fd[Req(t, FALSE)].result \cap addresses = {}

\* C6 witness: both results are in, some root is a dependent of a root (it
\* is in the direct dependents), and the open result is not empty.
C6_Witness ==
    \E t \in BOOLEAN :
        /\ Returned(Req(t, TRUE)) /\ Returned(Req(t, FALSE))
        /\ addresses \cap DirectDependents(address_to_dependents, addresses) # {}
        /\ fd[Req(t, FALSE)].result # {}

\* C7: with transitive=false the result is the union of index[r] over the
\* roots r, united with the roots if include_roots and with the roots
\* subtracted otherwise, after exactly one expansion round.
C7_DirectOnlyOneExpansion ==
    \A i \in BOOLEAN :
        Returned(Req(FALSE, i)) =>
            /\ fd[Req(FALSE, i)].result =
                  IF i THEN DirectDependents(address_to_dependents, addresses) \cup addresses
                  ELSE DirectDependents(address_to_dependents, addresses) \ addresses
            /\ fd[Req(FALSE, i)].known_dependents = {}

\* C7 witness: a direct-only request has returned while some address two or
\* more hops away is neither a direct dependent nor a root.
C7_Witness ==
    \E i \in BOOLEAN :
        /\ Returned(Req(FALSE, i))
        /\ ReverseReachable(address_to_dependents, addresses)
              \ (DirectDependents(address_to_dependents, addresses) \cup addresses) # {}

\* C8: for identical roots, index and include_roots flag, the transitive=false
\* result is a subset of the transitive=true result.
C8_DirectSubsetOfTransitive ==
    \A i \in BOOLEAN :
        (Returned(Req(FALSE, i)) /\ Returned(Req(TRUE, i))) =>
            fd[Req(FALSE, i)].result \subseteq fd[Req(TRUE, i)].result

\* C8 witness: both results are in, the direct one is not empty and the
\* transitive one is strictly larger.
C8_Witness ==
    \E i \in BOOLEAN :
        /\ Returned(Req(FALSE, i)) /\ Returned(Req(TRUE, i))
        /\ fd[Req(FALSE, i)].result # {}
        /\ fd[Req(FALSE, i)].result # fd[Req(TRUE, i)].result

---------------------------------------------------------------------------
\* Reference notions for the paths claims, defined on the adjacency alone.

\* The addresses listed in adjacency[n].
Successors(adjacency, n) ==
    {GetList(adjacency, n)[i] : i \in 1..Len(GetList(adjacency, n))}

Elements(p) == {p[i] : i \in 1..Len(p)}

RECURSIVE SimplePathsFrom(_, _, _)
\* The simple paths (no address twice) that extend prefix along adjacency
\* edges and end at destination, by depth-first enumeration.
SimplePathsFrom(adjacency, prefix, destination) ==
    IF prefix[Len(prefix)] = destination THEN {prefix}
    ELSE UNION {SimplePathsFrom(adjacency, Append(prefix, d), destination) :
                    d \in Successors(adjacency, prefix[Len(prefix)]) \ Elements(prefix)}

SimplePaths == SimplePathsFrom(adjacency_lists, <<from_target>>, to_target)

RECURSIVE HopsFrom(_, _, _, _, _)
\* Hop count of a shortest walk to destination, by layers of nodes; -1 when
\* there is none.
HopsFrom(adjacency, frontier, seen, destination, d) ==
    IF destination \in frontier THEN d
    ELSE IF frontier = {} THEN -1
    ELSE LET next == UNION {Successors(adjacency, n) : n \in frontier} \ seen
         IN  HopsFrom(adjacency, next, seen \cup next, destination, d + 1)

MinHops == HopsFrom(adjacency_lists, {from_target}, {from_target}, to_target, 0)

YieldedSet == {yielded[i] : i \in 1..Len(yielded)}

\* The last three addresses of a path (the whole path when it is shorter).
LastThree(p) == SubSeq(p, IF Len(p) > 3 THEN Len(p) - 2 ELSE 1, Len(p))

\* C3 as stated: every simple path from root to destination is among the
\* yielded paths.
C3_AllSimplePathsYielded ==
    (paths_pc = "done" /\ from_target # to_target) =>
        \A p \in SimplePaths : p \in YieldedSet

\* C3 as amended: every simple path of at most three hops is yielded, and
\* for a longer simple path some yielded path ends with the same last three
\* addresses (its last two edges); the path itself may be missing when its
\* second-to-last edge was expanded first under another prefix.
C3_ShortSimplePathsYielded ==
    (paths_pc = "done" /\ from_target # to_target) =>
        \A p \in SimplePaths :
            /\ Len(p) <= 4 => p \in YieldedSet
            /\ \E y \in YieldedSet : LastThree(y) = LastThree(p)

\* C3 witness: the enumeration is over, a simple path of three hops was
\* yielded and a simple path of four hops was left out.
C3_Witness ==
    /\ paths_pc = "done"
    /\ from_target # to_target
    /\ \E p \in SimplePaths : Len(p) = 4 /\ p \in YieldedSet
    /\ \E p \in SimplePaths : Len(p) = 5 /\ p \notin YieldedSet

\* The keys an enumeration can ever expand: (None, root) and the edges of
\* the adjacency.
EdgeKeys ==
    {<<None, from_target>>} \cup
    {<<n, m>> \in PathAddress \X PathAddress : m \in Successors(adjacency_lists, n)}

\* C4: find_paths_breadth_first terminates on every finite adjacency map,
\* cycles and self-loops included: the generator is exhausted in the end, and
\* until then every path in the work queue or yielded is made of a prefix
\* whose edge keys were expanded once each, so that it holds at most one
\* address more than there are edge keys, plus the destination.
C4_Terminates ==
    /\ <>(paths_pc = "done" /\ Len(to_walk_paths) = 0)
    /\ [](/\ \A i \in 1..Len(to_walk_paths) :
                Len(to_walk_paths[i]) <= Cardinality(EdgeKeys) + 1
          /\ \A i \in 1..Len(yielded) :
                Len(yielded[i]) <= Cardinality(EdgeKeys) + 1)

\* C4 witness: the enumeration is over on a map with a self-loop and a cycle
\* through the root, both expanded, and a path was yielded.
C4_Witness ==
    /\ paths_pc = "done"
    /\ from_target # to_target
    /\ \E v \in PathAddress : <<v, v>> \in visited_edges
    /\ \E v \in PathAddress \ {from_target} :
          <<from_target, v>> \in visited_edges /\ <<v, from_target>> \in visited_edges
    /\ Len(yielded) > 0

\* C5: the paths are yielded in non-decreasing order of length.
C5_YieldedShortestFirst ==
    \A i, j \in 1..Len(yielded) : i < j => Len(yielded[i]) <= Len(yielded[j])

\* C5 witness: paths of three different lengths have been yielded.
C5_Witness ==
    /\ paths_pc = "done"
    /\ \E i, j, k \in 1..Len(yielded) :
          Len(yielded[i]) < Len(yielded[j]) /\ Len(yielded[j]) < Len(yielded[k])

\* C9: when root equals destination exactly one path, [root], is yielded and
\* nothing is expanded, whatever the outgoing edges of the root.
C9_TrivialPath ==
    from_target = to_target =>
        /\ paths_pc \in {"start", "done", "off"}
        /\ visited_edges = {}
        /\ to_walk_paths = <<>>
        /\ paths_pc = "start" => yielded = <<>>
        /\ paths_pc = "done" => yielded = <<<<from_target>>>>

\* C9 witness: the trivial path was yielded for a root that has a self-loop
\* and lies on a cycle through another address.
C9_Witness ==
    /\ paths_pc = "done"
    /\ from_target = to_target
    /\ from_target \in Successors(adjacency_lists, from_target)
    /\ \E v \in PathAddress \ {from_target} :
          /\ v \in Successors(adjacency_lists, from_target)
          /\ from_target \in Successors(adjacency_lists, v)

\* C10: if the destination is reachable from the root (root # destination),
\* at least one path is yielded, and the first path yielded has the minimum
\* hop count of any walk from root to destination.
C10_FirstYieldedIsShortest ==
    from_target # to_target =>
        /\ (paths_pc = "done" /\ MinHops > 0) => Len(yielded) > 0
        /\ Len(yielded) > 0 => Len(yielded[1]) - 1 = MinHops

\* C10 witness: the destination is two hops away at least, and a longer
\* path was yielded after the first one.
C10_Witness ==
    /\ paths_pc = "done"
    /\ from_target # to_target
    /\ MinHops >= 2
    /\ Len(yielded) >= 2
    /\ Len(yielded[Len(yielded)]) > Len(yielded[1])

---------------------------------------------------------------------------
\* Claims on the paths goal.

\* C13: if --from or --to is unset the goal fails with its error before any
\* target is resolved, any per-root or per-pair rule has run or anything is
\* written; and the goal fails this way in no other case.
C13_UnsetOptionFailsFirst ==
    /\ (goal_pc # "off" /\ (path_from = NoList \/ path_to = NoList)) =>
          /\ goal_pc \in {"start", "raised"}
          /\ from_tgts = NoList /\ to_tgts = NoList
          /\ DOMAIN pair_paths = {} /\ pair_order = <<>>
          /\ root_collections = <<>> /\ root_order = <<>>
          /\ console = <<>>
    /\ goal_pc = "raised" =>
          /\ path_from = NoList \/ path_to = NoList
          /\ goal_error = (IF path_from = NoList THEN "Must set --from" ELSE "Must set --to")
    /\ goal_pc # "raised" => goal_error = None

\* C13 witness: the goal has failed with --from set to a spec of two targets
\* and --to unset.
C13_Witness ==
    /\ goal_pc = "raised"
    /\ path_from # NoList
    /\ Len(path_from[1]) = 2
    /\ path_to = NoList

RECURSIVE PairwisePaths(_, _)
\* The paths of the pairs from (i, j) on, roots in from_tgts order and under
\* each root the destinations in to_tgts order.
PairwisePaths(i, j) ==
    IF i > Len(from_tgts[1]) THEN <<>>
    ELSE IF j > Len(to_tgts[1]) THEN PairwisePaths(i + 1, 1)
    ELSE SpecsPathsOf(goal_graph, from_tgts[1][i], to_tgts[1][j]) \o PairwisePaths(i, j + 1)

\* C14: the list written is the concatenation, by root in from order and
\* under a root by destination in to order, of the paths yielded for each
\* pair, whatever the order in which the rules completed.
C14_OutputInRootThenDestinationOrder ==
    goal_pc = "written" => console = <<PairwisePaths(1, 1)>>

\* C14 witness: two roots and two destinations, each pair with a path; the
\* second root completed first and under the first root the second
\* destination completed first.
C14_Witness ==
    /\ goal_pc = "written"
    /\ root_order = <<2, 1>>
    /\ pair_order[1] = <<2, 1>>
    /\ \A pair \in DOMAIN pair_paths : Len(pair_paths[pair][1]) > 0
    /\ Len(console[1]) > 4

---------------------------------------------------------------------------
\* Further claims on find_paths_breadth_first and find_dependents.

\* C11: when the destination is not reachable from the root (a root missing
\* from the adjacency map included) the enumeration yields no path and ends
\* normally: while it is not exhausted a step can be taken, and it is
\* exhausted with an empty queue.
C11_UnreachableYieldsNothing ==
    (paths_pc # "off" /\ from_target # to_target /\ MinHops = -1) =>
        /\ yielded = <<>>
        /\ paths_pc \in {"start", "loop"} => ENABLED NextPaths
        /\ paths_pc = "done" => to_walk_paths = <<>>

\* C11 witness: the enumeration ended without a path after it expanded a
\* cycle that does not lead to the destination.
C11_Witness ==
    /\ paths_pc = "done"
    /\ from_target # to_target
    /\ MinHops = -1
    /\ yielded = <<>>
    /\ \E v \in PathAddress \ {from_target} :
          <<from_target, v>> \in visited_edges /\ <<v, from_target>> \in visited_edges

\* C12: an empty root set makes find_dependents return the empty set for
\* every combination of transitive and include_roots, in its first round.
C12_EmptyRootsEmptyResult ==
    addresses = {} =>
        \A q \in Requests :
            /\ Returned(q) => fd[q].result = {} /\ fd[q].known_dependents = {}
            /\ fd[q].pc = "loop" => fd[q].check = {} /\ fd[q].known_dependents = {}

\* C12 witness: the four requests have returned for an empty root set over an
\* index that is not empty.
C12_Witness ==
    /\ addresses = {}
    /\ DOMAIN address_to_dependents # {}
    /\ \A q \in Requests : Returned(q)

\* The edge key of a path, written out: (second-to-last or None, last).
KeyOf(path) ==
    IF Len(path) = 1 THEN <<None, path[1]>>
    ELSE <<path[Len(path) - 1], path[Len(path)]>>

\* C17: each edge key is expanded at most once: visited_edges only grows; a
\* round whose dequeued path has its key in visited_edges only drops that
\* path; and a round that enqueues or yields adds the key of the dequeued
\* path, which was not in visited_edges, to it.
C17_EdgeKeyExpandedOnce ==
    [][(paths_pc = "loop" /\ paths_pc' = "loop") =>
          /\ visited_edges \subseteq visited_edges'
          /\ Len(to_walk_paths) > 0
          /\ KeyOf(Head(to_walk_paths)) \in visited_edges =>
                /\ to_walk_paths' = Tail(to_walk_paths)
                /\ yielded' = yielded
                /\ visited_edges' = visited_edges
          /\ (yielded' # yielded \/ to_walk_paths' # Tail(to_walk_paths)) =>
                /\ KeyOf(Head(to_walk_paths)) \notin visited_edges
                /\ visited_edges' = visited_edges \cup {KeyOf(Head(to_walk_paths))}
      ]_vars

\* C17 witness: a path was yielded and the path at the head of the queue has
\* its edge key in visited_edges already.
C17_Witness ==
    /\ paths_pc = "loop"
    /\ Len(to_walk_paths) > 0
    /\ KeyOf(Head(to_walk_paths)) \in visited_edges
    /\ Len(yielded) > 0

\* The positions of path that hold address v.
Occurrences(path, v) == {i \in 1..Len(path) : path[i] = v}

\* The addresses that list v among their dependencies.
Predecessors(v) == {n \in PathAddress : v \in Successors(adjacency_lists, n)}

\* C18 as stated: every yielded path is simple.
C18_YieldedPathsSimple ==
    \A i \in 1..Len(yielded) :
        \A v \in PathAddress : Cardinality(Occurrences(yielded[i], v)) <= 1

\* C18 as amended: a yielded path may hold an address more than once, but
\* each occurrence is entered from another predecessor: an address occurs at
\* most once per address that lists it as a dependency, plus once for the
\* root as the start of the path.
C18_OccurrencesBoundedByPredecessors ==
    \A i \in 1..Len(yielded) :
        \A v \in PathAddress :
            Cardinality(Occurrences(yielded[i], v)) <=
                Cardinality(Predecessors(v)) + (IF v = from_target THEN 1 ELSE 0)

\* C18 witness: a yielded path holds the root twice.
C18_Witness ==
    /\ from_target # to_target
    /\ \E i \in 1..Len(yielded) :
          Cardinality(Occurrences(yielded[i], from_target)) = 2

\* C19: no yielded path traverses the same directed edge twice.
C19_NoEdgeTwice ==
    \A i \in 1..Len(yielded) :
        \A j, k \in 1..(Len(yielded[i]) - 1) :
            (yielded[i][j] = yielded[i][k] /\ yielded[i][j + 1] = yielded[i][k + 1])
                => j = k

\* C19 witness: a yielded path visits an address that is not the root twice,
\* through two different predecessors.
C19_Witness ==
    \E i \in 1..Len(yielded) :
        \E j, k \in 2..Len(yielded[i]) :
            /\ j < k
            /\ yielded[i][j] = yielded[i][k]
            /\ yielded[i][j - 1] # yielded[i][k - 1]

\* path starts with the root and each consecutive pair is an adjacency edge.
IsWalkFromRoot(path) ==
    /\ Len(path) >= 1
    /\ path[1] = from_target
    /\ \A j \in 1..(Len(path) - 1) :
          path[j + 1] \in Successors(adjacency_lists, path[j])

\* C20: every yielded path starts with the root, ends with the destination
\* and follows adjacency edges; every path in the queue starts with the root
\* and follows adjacency edges.
C20_PathsAreWalks ==
    /\ \A i \in 1..Len(yielded) :
          /\ IsWalkFromRoot(yielded[i])
          /\ yielded[i][Len(yielded[i])] = to_target
    /\ \A i \in 1..Len(to_walk_paths) : IsWalkFromRoot(to_walk_paths[i])

\* C20 witness: a path of three hops was yielded while a path of three hops
\* is waiting in the queue.
C20_Witness ==
    /\ \E i \in 1..Len(yielded) : Len(yielded[i]) = 4
    /\ \E i \in 1..Len(to_walk_paths) : Len(to_walk_paths[i]) = 4

---------------------------------------------------------------------------
\* Claims on the dependents goal

\* What find_dependents is to return for the single root a under the options
\* of the goal, stated on the reverse index alone.
SingleRootDependents(a) ==
    LET found == IF dependents_subsystem.transitive
                 THEN ReverseReachable(address_to_dependents, {a})
                 ELSE DirectDependents(address_to_dependents, {a})
    IN  IF dependents_subsystem.closed THEN found \cup {a} ELSE found \ {a}

\* C15: in JSON format the dependents goal maps each input address to the
\* sorted list of the result of find_dependents run on that single address as
\* the only root, with the transitive and closed flags of the goal, whatever
\* the other input addresses are.
C15_JsonMapsEachAddressAlone ==
    (dgoal_pc = "written" /\ dependents_subsystem.format = "json") =>
        /\ console =
              <<[i \in 1..Len(specified_addresses) |->
                  <<specified_addresses[i],
                    SortedAddresses(FindDependents({specified_addresses[i]},
                                                   address_to_dependents,
                                                   dependents_subsystem.transitive,
                                                   dependents_subsystem.closed))>>]>>
        /\ \A i \in 1..Len(specified_addresses) :
              console[1][i][2] =
                  SortedAddresses(SingleRootDependents(specified_addresses[i]))

\* C15 witness: the JSON mapping of two addresses was written in open mode,
\* the second address is a dependent of the first and is listed under it, and
\* the two lists differ: a query on both addresses as roots would have
\* dropped it.
C15_Witness ==
    /\ dgoal_pc = "written"
    /\ dependents_subsystem.format = "json"
    /\ ~dependents_subsystem.closed
    /\ Len(specified_addresses) = 2
    /\ Len(console) = 1
    /\ \E k \in 1..Len(console[1][1][2]) : console[1][1][2][k] = specified_addresses[2]
    /\ console[1][2][2] # <<>>
    /\ console[1][1][2] # console[1][2][2]
    /\ group_order = <<2, 1>>

---------------------------------------------------------------------------
\* Claims on queries that run side by side

\* s is an initial part of r.
IsPrefix(s, r) == Len(s) <= Len(r) /\ s = SubSeq(r, 1, Len(s))

\* What enumeration t yields when it runs alone.
AloneYield(t) ==
    FindPathsBreadthFirst(adjacency_lists, walks[t].from_target, walks[t].to_target)

\* What request q returns when it runs alone.
AloneResult(q) ==
    FindDependents(addresses, address_to_dependents, q.transitive, q.include_roots)

\* C16: queries interleaved over the same snapshot do not interfere. Under
\* every interleaving of their steps each enumeration of
\* find_paths_breadth_first, with its own queue and visited-edge set, yields
\* exactly the paths it yields when run alone (at every moment an initial part
\* of them, in the end all of them), and each find_dependents request returns
\* exactly what it returns when run alone.
C16_NoInterference ==
    /\ \A t \in DOMAIN walks :
          /\ IsPrefix(walks[t].yielded, AloneYield(t))
          /\ walks[t].pc = "done" => walks[t].yielded = AloneYield(t)
    /\ \A q \in ConcurrentRequests :
          fd[q].pc = "returned" => fd[q].result = AloneResult(q)

\* C16 witness: two enumerations from the same root have both expanded an
\* edge key that the other one has expanded too, and one that it has not; the
\* first is exhausted and has yielded a path, the second
\* is still in its loop and has yielded one as well; one request has returned
\* a non-empty result while the other is in its second round.
C16_Witness ==
    /\ DOMAIN walks = WalkIds
    /\ walks[1].pc = "done" /\ walks[1].yielded # <<>>
    /\ walks[2].pc = "loop" /\ walks[2].yielded # <<>>
    /\ walks[1].to_target # walks[2].to_target
    /\ walks[1].visited_edges \cap walks[2].visited_edges # {}
    /\ walks[1].visited_edges # walks[2].visited_edges
    /\ fd[[transitive |-> FALSE, include_roots |-> TRUE]].pc = "returned"
    /\ fd[[transitive |-> FALSE, include_roots |-> TRUE]].result # addresses
    /\ fd[[transitive |-> TRUE, include_roots |-> FALSE]].pc = "loop"
    /\ fd[[transitive |-> TRUE, include_roots |-> FALSE]].known_dependents # {}

---------------------------------------------------------------------------
\* Further claims on find_paths_breadth_first

\* C21: when root and destination differ the destination is never expanded:
\* no path in the queue holds the destination, and in every yielded path the
\* destination is the last element and occurs nowhere else.
C21_DestinationNeverExpanded ==
    (paths_pc # "off" /\ from_target # to_target) =>
        /\ \A i \in 1..Len(to_walk_paths) :
              Occurrences(to_walk_paths[i], to_target) = {}
        /\ \A i \in 1..Len(yielded) :
              Occurrences(yielded[i], to_target) = {Len(yielded[i])}

\* C21 witness: the enumeration has ended with a path of two or more hops
\* yielded, over a graph in which the destination has a dependency that
\* leads back to it.
C21_Witness ==
    /\ paths_pc = "done"
    /\ from_target # to_target
    /\ \E i \in 1..Len(yielded) : Len(yielded[i]) >= 3
    /\ \E v \in Successors(adjacency_lists, to_target) :
          to_target \in Successors(adjacency_lists, v)

\* s holds no element twice.
NoDuplicates(s) == \A i \in 1..Len(s) : \A j \in 1..Len(s) : s[i] = s[j] => i = j

\* No adjacency list holds an address twice.
ListsDuplicateFree(adjacency) == \A n \in DOMAIN adjacency : NoDuplicates(adjacency[n])

\* C25: when no adjacency list holds a duplicate entry, no path is yielded
\* twice and no partial path is placed in the queue more than once.
C25_NoPathTwice ==
    (paths_pc # "off" /\ ListsDuplicateFree(adjacency_lists)) =>
        /\ NoDuplicates(yielded)
        /\ NoDuplicates(enqueued)
        /\ NoDuplicates(to_walk_paths)

\* C25 witness: the enumeration has ended over a graph with a cycle; several
\* paths were yielded, and more paths were placed in the queue than there are
\* addresses, so some address is the end of two queued paths.
C25_Witness ==
    /\ paths_pc = "done"
    /\ Len(yielded) >= 2
    /\ Len(enqueued) > Cardinality(PathAddress)
    /\ \E i \in 1..Len(enqueued) : Cardinality(Elements(enqueued[i])) < Len(enqueued[i])

---------------------------------------------------------------------------
\* Further claims on find_dependents

\* The set accumulated by request q when its loop was left: dependents of the
\* last round, which is known_dependents with the last check added.
Accumulated(q) == fd[q].known_dependents \cup fd[q].check

\* C22: when find_dependents leaves its loop with transitive=true the
\* accumulated set is a fixed point of one-hop expansion: the index entry of
\* every accumulated dependent and of every root lies within the accumulated
\* set, so one more round of expansion changes nothing.
C22_FixedPointOnExit ==
    \A q \in Requests :
        (Returned(q) /\ q.transitive) =>
            /\ \A n \in Accumulated(q) \cup addresses :
                  Get(address_to_dependents, n) \subseteq Accumulated(q)
            /\ Expand(Accumulated(q) \cup addresses, Accumulated(q),
                      address_to_dependents) = Accumulated(q)

\* C22 witness: a transitive request has returned after more than two rounds
\* over an index with a cycle through a root.
C22_Witness ==
    /\ Returned(Req(TRUE, TRUE))
    /\ fd[Req(TRUE, TRUE)].iterations >= 3
    /\ addresses \cap Accumulated(Req(TRUE, TRUE)) # {}
    /\ addresses # {}

\* The distinct addresses that occur as a dependent in the index.
AddressesAsDependents(mapping) == UNION {mapping[n] : n \in DOMAIN mapping}

\* C23: find_dependents terminates on every finite reverse index, cyclic and
\* self-dependent ones included: every request returns; a round that does not
\* return makes known_dependents strictly larger; and the loop body runs at
\* most (number of distinct addresses occurring as dependents) + 1 times.
C23_TerminatesWithinBound ==
    /\ <>(\A q \in Requests : Returned(q))
    /\ [](\A q \in Requests :
             fd[q].iterations <=
                 Cardinality(AddressesAsDependents(address_to_dependents)) + 1)
    /\ [][\A q \in Requests :
             (fd[q].pc = "loop" /\ fd'[q].pc = "loop" /\ fd'[q] # fd[q]) =>
                 /\ fd[q].known_dependents \subseteq fd'[q].known_dependents
                 /\ fd[q].known_dependents # fd'[q].known_dependents
                 /\ fd'[q].iterations = fd[q].iterations + 1]_vars

\* C23 witness: over an index with a self-dependency and a cycle, a request
\* has returned after exactly as many rounds as the bound allows, more than
\* two.
C23_Witness ==
    /\ Returned(Req(TRUE, FALSE))
    /\ fd[Req(TRUE, FALSE)].iterations =
          Cardinality(AddressesAsDependents(address_to_dependents)) + 1
    /\ fd[Req(TRUE, FALSE)].iterations >= 3
    /\ \E n \in Address : n \in Get(address_to_dependents, n)
    /\ addresses \cap ReverseReachable(address_to_dependents, addresses) # {}

\* C24: find_dependents distributes over the root set. With include_roots the
\* result for the roots R is the union of the results for the single roots
\* {r}, r in R; without it, it is the union of the results for the single
\* roots, less R. This holds for either value of transitive.
C24_DistributesOverRoots ==
    \A q \in Requests :
        Returned(q) =>
            LET singles == UNION {FindDependents({r}, address_to_dependents,
                                                 q.transitive, q.include_roots) :
                                     r \in addresses}
            IN  fd[q].result = IF q.include_roots THEN singles ELSE singles \ addresses

\* C24 witness: an open transitive request on two roots has returned; one
\* root is a dependent of the other, so the result of that single root holds
\* an address that the result for both does not.
C24_Witness ==
    /\ Returned(Req(TRUE, FALSE))
    /\ Cardinality(addresses) = 2
    /\ \E r \in addresses :
          /\ FindDependents({r}, address_to_dependents, TRUE, FALSE) \cap addresses # {}
          /\ FindDependents({r}, address_to_dependents, TRUE, FALSE) \ addresses # {}
    /\ fd[Req(TRUE, FALSE)].result # {}

---------------------------------------------------------------------------
\* Claims on run_deploy

\* The events of the log that tell of a publish, and of a deploy.
IsPublishEvent(e) == e[2] = "publish"

IsDeployEvent(e) == e[2] = "deploy"

\* Some publish process that was executed has exited with a code other than 0.
PublishFailed ==
    \E i \in 1..Len(log) :
        /\ log[i][1] = "exit"
        /\ IsPublishEvent(log[i])
        /\ publish_processes[log[i][3]].code # 0

\* Every publish process has been executed to its exit, or skipped.
AllPublishesOver ==
    \A k \in 1..Len(publish_processes) :
        \E i \in 1..Len(log) :
            log[i] \in {<<"exit", "publish", k>>, <<"skip", "publish", k>>}

\* The deploy phase has been entered: a deploy was invoked or skipped.
DeployPhaseEntered == \E i \in 1..Len(log) : IsDeployEvent(log[i])

\* C26: no deploy process is invoked unless every publish process that was
\* executed, background or foreground, exited with code 0; when a publish
\* fails the deploy phase is skipped entirely (no deploy is invoked, none is
\* reported) and the exit code of the goal is not 0.
C26_NoDeployAfterFailedPublish ==
    /\ (DeployPhaseEntered \/ deploy_pc = "deploying") =>
          /\ ~PublishFailed
          /\ AllPublishesOver
          /\ \A k \in 1..Len(publish_processes) : publish_processes[k].code = 0
    /\ (PublishFailed /\ deploy_pc \in {"print", "done"}) =>
          /\ ~DeployPhaseEntered
          /\ exit_code # 0
          /\ \A i \in 1..Len(results) : results[i].name[1] # "deploy"

\* C26 witness: run_deploy has returned; a background publish failed, a
\* foreground publish after it succeeded, there is a deploy with a process,
\* and only publishes were reported.
C26_Witness ==
    /\ deploy_pc = "done"
    /\ \E k \in 1..Len(publish_processes) :
          /\ publish_processes[k].kind = "Process"
          /\ publish_processes[k].code # 0
    /\ \E k \in 1..Len(publish_processes) :
          /\ publish_processes[k].kind = "InteractiveProcess"
          /\ publish_processes[k].code = 0
          /\ <<"exit", "publish", k>> = log[Len(log)]
    /\ \E d \in 1..Len(deploy_processes) : deploy_processes[d].kind = "InteractiveProcess"
    /\ ~DeployPhaseEntered
    /\ exit_code # 0

\* The phase of an event: 1 for a background publish, 2 for a foreground
\* publish, 3 for a deploy.
PhaseOf(e) ==
    IF IsDeployEvent(e) THEN 3
    ELSE IF publish_processes[e[3]].kind = "Process" THEN 1 ELSE 2

\* C27: run_deploy orders its phases. Every background publish has exited
\* before the first foreground publish is invoked or skipped; the foreground
\* publishes are taken one at a time in list order; every publish is over
\* before the first deploy is invoked; the deploys are taken one at a time in
\* list order.
C27_PhasesInOrder ==
    /\ \A i \in 1..Len(log) : \A j \in 1..Len(log) :
          i < j =>
             /\ PhaseOf(log[i]) <= PhaseOf(log[j])
             /\ (PhaseOf(log[i]) = PhaseOf(log[j]) /\ PhaseOf(log[i]) > 1) =>
                   \/ log[i][3] < log[j][3]
                   \/ log[i][3] = log[j][3] /\ log[i][1] = "invoke" /\ log[j][1] = "exit"
                                            /\ j = i + 1
    /\ \A i \in 1..Len(log) :
          (PhaseOf(log[i]) > 1 /\ log[i][1] = "invoke") =>
              IF i = Len(log) THEN running = {<<log[i][2], log[i][3]>>}
              ELSE log[i + 1] = <<"exit", log[i][2], log[i][3]>>
    /\ \A i \in 1..Len(log) :
          PhaseOf(log[i]) > 1 =>
              \A k \in 1..Len(publish_processes) :
                  /\ publish_processes[k].kind = "Process" =>
                        \E j \in 1..(i - 1) : log[j] = <<"exit", "publish", k>>
                  /\ (PhaseOf(log[i]) = 3 \/ k < log[i][3]) =>
                        \E j \in 1..(i - 1) :
                            log[j] \in {<<"exit", "publish", k>>, <<"skip", "publish", k>>}
    /\ \A i \in 1..Len(log) :
          IsDeployEvent(log[i]) =>
              \A d \in 1..(log[i][3] - 1) :
                  \E j \in 1..(i - 1) :
                      log[j] \in {<<"exit", "deploy", d>>, <<"skip", "deploy", d>>}
    /\ deploy_pc \in {"foreground", "deploying", "print", "done"} => Cardinality(running) <= 1

\* C27 witness: run_deploy has returned after two background publishes that
\* exited in the order opposite to that of the list, a foreground publish
\* that was in the list before them, and two deploys with a process.
C27_Witness ==
    /\ deploy_pc = "done"
    /\ Len(publish_processes) = 3
    /\ publish_processes[1].kind = "InteractiveProcess"
    /\ \E i \in 1..Len(log) : \E j \in 1..Len(log) :
          i < j /\ log[i] = <<"exit", "publish", 3>> /\ log[j] = <<"exit", "publish", 2>>
    /\ \E i \in 1..Len(log) : log[i] = <<"invoke", "publish", 1>>
    /\ log[Len(log)] = <<"exit", "deploy", 2>>
    /\ \E i \in 1..Len(log) : log[i] = <<"invoke", "deploy", 1>>

\* The exit codes of the processes that run_deploy takes account of, in the
\* order in which it does: the background publishes in list order, the
\* foreground publishes in list order (0 for one without process), and, if
\* all of these are 0, the deploys in list order.
CodesInOrder ==
    LET codes(kinds) ==
            LET ps == SelectSeq(publish_processes, LAMBDA p : p.kind \in kinds)
            IN  [n \in 1..Len(ps) |-> ps[n].code]
        published == codes({"Process"}) \o codes({"InteractiveProcess", "None"})
    IN  IF \A n \in 1..Len(published) : published[n] = 0
        THEN published \o [d \in 1..Len(deploy_processes) |-> deploy_processes[d].code]
        ELSE published

\* The last code of codes that is not 0, or 0 if there is none.
LastNonZero(codes) ==
    IF \A n \in 1..Len(codes) : codes[n] = 0 THEN 0
    ELSE codes[CHOOSE n \in 1..Len(codes) :
                  codes[n] # 0 /\ \A m \in (n + 1)..Len(codes) : codes[m] = 0]

\* C28: the exit code that run_deploy returns is 0 if and only if every
\* publish and deploy process that was executed exited 0 (one without process
\* counts as skipped with code 0); otherwise it is the exit code of the last
\* process, in the order in which run_deploy takes the processes, that exited
\* with another code: a later success does not set it back to 0. The
\* background publishes are taken in list order, whatever the order in which
\* they exited.
C28_ExitCodeIsLastFailure ==
    deploy_pc = "done" =>
        /\ exit_code = 0 <=>
              \A i \in 1..Len(log) :
                  log[i][1] = "exit" =>
                      (IF IsDeployEvent(log[i]) THEN deploy_processes[log[i][3]].code
                       ELSE publish_processes[log[i][3]].code) = 0
        /\ exit_code = LastNonZero(CodesInOrder)

\* C28 witness: run_deploy has returned a code other than 0 although the
\* last process it executed, a deploy, exited 0: a deploy before it failed.
C28_Witness ==
    /\ deploy_pc = "done"
    /\ exit_code # 0
    /\ Len(publish_processes) > 0
    /\ Len(log) > 0
    /\ log[Len(log)] = <<"exit", "deploy", 2>>
    /\ deploy_processes[2].code = 0

====
